---- MODULE Spec2Model ----
(***************************************************************************)
(* fetchNext (src/src/fetch-next.ts): an adapter over an async iterator    *)
(* that requests the following record once the current one has resolved.   *)
(*                                                                         *)
(* The model is the JavaScript execution of a chain of M fetchNext         *)
(* adapters between a source iterator (layer 0) and one consumer:          *)
(*   - every promise is a cell of st (pending, or settled with a result);  *)
(*   - reactions registered with then/await on a pending promise wait in   *)
(*     `waiting`, in registration order;                                   *)
(*   - `queue` is the microtask queue (FIFO): one action runs its head;    *)
(*   - the source settles its requests at times of its own choosing, with  *)
(*     answers of its own choosing (it is a black box to the adapter);     *)
(*   - the consumer pulls, receives the result, works on an item, pulls.   *)
(***************************************************************************)
EXTENDS Integers, Sequences, FiniteSets, TLC

\* Bounds of the model.
MaxLayers == 2      \* fetchNext applied 1..MaxLayers times over the source
MaxPulls == 4       \* pulls the consumer makes on the outermost adapter

\* Delays (milliseconds) of the timed harness.
FastDelay == 5
ConsumerDelay == 20
SlowDelay == 100

VARIABLES
  M,         \* number of chained adapters (pipe(fetchNext, ..., fetchNext))
  st,        \* st[L][k]: state of the k-th promise created by layer L
  pending,   \* pending[L]: the `pending` variable of adapter L
  waiting,   \* reactions registered on promises that have not settled yet
  queue,     \* microtask queue
  calls,     \* calls[L][k]: the promise the k-th next() on layer L returned
  results,   \* results[j]: what the consumer's j-th pull resolved to
  phase,     \* consumer: "idle", "waiting", "busy" (processing), "ended"
  clock      \* the timed harness (produce/consume delays, timers, event log)

vars == <<M, st, pending, waiting, queue, calls, results, phase, clock>>

----------------------------------------------------------------------------
\* Results of a pull: IteratorResult<T>, or a rejection.

Pend == [t |-> "pend", v |-> -1]
Done == [t |-> "done", v |-> -1]
Item(i) == [t |-> "item", v |-> i]
Err(i) == [t |-> "err", v |-> i]

Fulfilled(r) == r.t \in {"item", "done"}

\* Promise identities: <<layer, index>>, layer 0 being the source iterator.
None == <<-1, -1>>       \* `let pending` before the first call
DoneP == <<-2, -2>>      \* Promise.resolve({done: true, value: undefined})
Consumer(j) == <<-3, j>> \* the continuation of the consumer's j-th await

Layers == 1..MaxLayers

StateOf(w, p) == IF p = DoneP THEN Done ELSE w.st[p[1]][p[2]]

Job(kind, tgt, arg, res) == [kind |-> kind, tgt |-> tgt, arg |-> arg, res |-> res]

\* promise.then(reaction): queued at once when the promise has settled,
\* otherwise kept until it settles.
PerformThen(w, p, kind, tgt) ==
  IF StateOf(w, p) = Pend
  THEN [w EXCEPT !.waiting = Append(@, [on |-> p, kind |-> kind, tgt |-> tgt])]
  ELSE [w EXCEPT !.queue = Append(@, Job(kind, tgt, p, StateOf(w, p)))]

\* A promise settles: its reactions become microtasks, in registration order.
Settle(w, p, r) ==
  LET mine(x) == x.on = p
      other(x) == x.on # p
      rs == SelectSeq(w.waiting, mine)
  IN [w EXCEPT !.st[p[1]][p[2]] = r,
               !.queue = @ \o [i \in 1..Len(rs) |-> Job(rs[i].kind, rs[i].tgt, p, r)],
               !.waiting = SelectSeq(w.waiting, other)]

----------------------------------------------------------------------------
\* The source: next() returns a fresh promise; the request is outstanding
\* until the source settles it.
SourceNext(w) ==
  [w |-> [w EXCEPT !.st[0] = Append(@, Pend)], p |-> <<0, Len(w.st[0]) + 1>>]

\* fetchNext's next(), at layer L, over iterator L-1.
RECURSIVE IterNext(_, _)

\* Variants of next() used to test the properties below against the code.
\* The lookahead request is issued at once, before `next` has settled.
FetchNextEager(L, w) ==
  LET up == IF w.pending[L] = None THEN IterNext(L - 1, w)
                                   ELSE [w |-> w, p |-> w.pending[L]]
      ahead == IterNext(L - 1, up.w)
  IN [w |-> [ahead.w EXCEPT !.pending[L] = ahead.p], p |-> up.p]

\* No lookahead at all: every pull is passed to the iterator.
FetchNextLazy(L, w) == IterNext(L - 1, w)

\* `pending` is never read: every pull makes a request of its own.
FetchNextIgnorePending(L, w) ==
  LET up == IterNext(L - 1, w)
      k == Len(up.w.st[L]) + 1
      w2 == [up.w EXCEPT !.st[L] = Append(@, Pend), !.pending[L] = <<L, k>>]
  IN [w |-> PerformThen(w2, up.p, "then", <<L, k>>), p |-> up.p]

\* next() hands out the new `pending` instead of `next`.
FetchNextReturnPending(L, w) ==
  LET up == IF w.pending[L] = None THEN IterNext(L - 1, w)
                                   ELSE [w |-> w, p |-> w.pending[L]]
      k == Len(up.w.st[L]) + 1
      w2 == [up.w EXCEPT !.st[L] = Append(@, Pend), !.pending[L] = <<L, k>>]
  IN [w |-> PerformThen(w2, up.p, "then", <<L, k>>), p |-> <<L, k>>]

FetchNext(L, w) ==
  LET up == IF w.pending[L] = None THEN IterNext(L - 1, w)
                                   ELSE [w |-> w, p |-> w.pending[L]]
      next == up.p
      k == Len(up.w.st[L]) + 1
      w2 == [up.w EXCEPT !.st[L] = Append(@, Pend), !.pending[L] = <<L, k>>]
  IN [w |-> PerformThen(w2, next, "then", <<L, k>>), p |-> next]

IterNext(L, w) ==
  LET r == IF L = 0 THEN SourceNext(w) ELSE FetchNext(L, w)
  IN [w |-> [r.w EXCEPT !.calls[L] = Append(@, r.p)], p |-> r.p]

\* Variant: the reaction asks the iterator but never resolves `pending`.
ThenReactionNoResolve(w, tgt, res) ==
  IF Fulfilled(res)
  THEN IterNext(tgt[1] - 1, w).w
  ELSE [w EXCEPT !.queue = Append(@, Job("catch", tgt, None, res))]

\* next.then(() => resolve(iterator.next())): the reaction of adapter L's
\* promise tgt to `next` having settled with res.
ThenReaction(w, tgt, res) ==
  IF Fulfilled(res)
  THEN LET up == IterNext(tgt[1] - 1, w)
       IN [up.w EXCEPT !.queue = Append(@, Job("thenable", tgt, up.p, Pend))]
  ELSE [w EXCEPT !.queue = Append(@, Job("catch", tgt, None, res))]

\* Variant: the catch branch asks the iterator again instead of ending.
CatchReactionRetry(w, tgt, res) ==
  LET up == IterNext(tgt[1] - 1, w)
  IN [up.w EXCEPT !.queue = Append(@, Job("thenable", tgt, up.p, Pend))]

\* .catch(() => resolve(Promise.resolve({done: true, value: undefined})))
CatchReaction(w, tgt, res) ==
  [w EXCEPT !.queue = Append(@, Job("thenable", tgt, DoneP, Pend))]

World ==
  [st |-> st, pending |-> pending, waiting |-> waiting, queue |-> queue,
   calls |-> calls]

Rest == [World EXCEPT !.queue = Tail(queue)]

Becomes(w) ==
  /\ st' = w.st
  /\ pending' = w.pending
  /\ waiting' = w.waiting
  /\ queue' = w.queue
  /\ calls' = w.calls

\* The timed harness is not running.
Off == [now |-> 0, n |-> 0, dp |-> <<>>, timers |-> {}, log |-> <<>>]

----------------------------------------------------------------------------
\* Variant: the first request is made when the iterator is obtained
\* (`let pending = iterator.next()`).
InitEager ==
  /\ clock = Off
  /\ M \in Layers
  /\ st = [L \in 0..MaxLayers |-> IF L = 0 THEN <<Pend>> ELSE <<>>]
  /\ pending = [L \in Layers |-> IF L = 1 THEN <<0, 1>> ELSE None]
  /\ waiting = <<>>
  /\ queue = <<>>
  /\ calls = [L \in 0..MaxLayers |-> IF L = 0 THEN <<<<0, 1>>>> ELSE <<>>]
  /\ results = <<>>
  /\ phase = "idle"

Init ==
  /\ clock = Off
  /\ M \in Layers
  /\ st = [L \in 0..MaxLayers |-> <<>>]
  /\ pending = [L \in Layers |-> None]
  /\ waiting = <<>>
  /\ queue = <<>>
  /\ calls = [L \in 0..MaxLayers |-> <<>>]
  /\ results = <<>>
  /\ phase = "idle"

\* The consumer calls next() on the outermost adapter and awaits the result.
DoPull ==
  LET j == Len(results) + 1
      r == IterNext(M, World)
  IN /\ Len(results) < MaxPulls
     /\ Becomes(PerformThen(r.w, r.p, "cons", Consumer(j)))
     /\ results' = Append(results, Pend)
     /\ phase' = "waiting"
     /\ UNCHANGED M

Pull == phase = "idle" /\ DoPull

\* A consumer that pulls again after end-of-sequence or after an error.
PullAgain == phase = "ended" /\ DoPull

\* The source settles an outstanding request: request number j-1 yields the
\* item j-1, or end-of-sequence, or fails with the error of request j-1.
SourceSettle ==
  \E j \in 1..Len(st[0]) :
    /\ st[0][j] = Pend
    /\ \E r \in {Item(j - 1), Done, Err(j - 1)} : Becomes(Settle(World, <<0, j>>, r))
    /\ UNCHANGED <<M, results, phase>>

JobThen ==
  /\ queue # <<>> /\ Head(queue).kind = "then"
  /\ Becomes(ThenReaction(Rest, Head(queue).tgt, Head(queue).res))
  /\ UNCHANGED <<M, results, phase>>

JobCatch ==
  /\ queue # <<>> /\ Head(queue).kind = "catch"
  /\ Becomes(CatchReaction(Rest, Head(queue).tgt, Head(queue).res))
  /\ UNCHANGED <<M, results, phase>>

\* resolve(promise): the promise is adopted one microtask later.
JobThenable ==
  /\ queue # <<>> /\ Head(queue).kind = "thenable"
  /\ Becomes(PerformThen(Rest, Head(queue).arg, "adopt", Head(queue).tgt))
  /\ UNCHANGED <<M, results, phase>>

JobAdopt ==
  /\ queue # <<>> /\ Head(queue).kind = "adopt"
  /\ Becomes(Settle(Rest, Head(queue).tgt, Head(queue).res))
  /\ UNCHANGED <<M, results, phase>>

\* The consumer's await resumes with the result of its pull.
JobCons ==
  /\ queue # <<>> /\ Head(queue).kind = "cons"
  /\ Becomes(Rest)
  /\ results' = [results EXCEPT ![Head(queue).tgt[2]] = Head(queue).res]
  /\ phase' = IF Head(queue).res.t = "item" THEN "busy" ELSE "ended"
  /\ UNCHANGED M

\* The consumer finishes its task on the item it received.
Finish ==
  /\ phase = "busy"
  /\ phase' = "idle"
  /\ UNCHANGED <<M, st, pending, waiting, queue, calls, results>>

Next ==
  \/ Pull /\ UNCHANGED clock
  \/ PullAgain /\ UNCHANGED clock
  \/ SourceSettle /\ UNCHANGED clock
  \/ JobThen /\ UNCHANGED clock
  \/ JobCatch /\ UNCHANGED clock
  \/ JobThenable /\ UNCHANGED clock
  \/ JobAdopt /\ UNCHANGED clock
  \/ JobCons /\ UNCHANGED clock
  \/ Finish /\ UNCHANGED clock

Spec == Init /\ [][Next]_vars

----------------------------------------------------------------------------
\* The timed harness: produce(count, delays) behind one adapter, drained by
\* consume(delay).  Each item takes its own time to produce (a timer set
\* when the item is requested) and ConsumerDelay to consume (a timer set
\* when the consumer receives it).  A timer fires only when the microtask
\* queue is empty and the running code has reached its await; the earliest
\* timer fires first.  clock.log is the order of the events R, P, C, F.

Ev(e, i) == <<e, i>>

TimedInit ==
  /\ M = 1
  /\ st = [L \in 0..MaxLayers |-> <<>>]
  /\ pending = [L \in Layers |-> None]
  /\ waiting = <<>>
  /\ queue = <<>>
  /\ calls = [L \in 0..MaxLayers |-> <<>>]
  /\ results = <<>>
  /\ phase = "idle"
  /\ \E n \in 1..(MaxPulls - 1) : \E dp \in [1..n -> {FastDelay, SlowDelay}] :
       clock = [now |-> 0, n |-> n, dp |-> dp, timers |-> {}, log |-> <<>>]

\* produce: a request that reaches the generator while items remain is
\* stamped (r) and starts the item's delay.
Requested(c, j) ==
  IF j <= c.n
  THEN [c EXCEPT !.log = Append(@, Ev("R", j - 1)),
                 !.timers = @ \cup {[at |-> c.now + c.dp[j], kind |-> "P", id |-> j]}]
  ELSE c

\* The clock after a step that may have called next() on the source.
Noted ==
  IF Len(st'[0]) > Len(st[0]) THEN Requested(clock, Len(st'[0])) ELSE clock

\* Timers fire between tasks: no microtask is left, the consumer is not in
\* the middle of its loop body, the generator is not about to return.
Quiet ==
  /\ queue = <<>>
  /\ phase # "idle"
  /\ \A j \in 1..Len(st[0]) : st[0][j] = Pend => j <= clock.n

Earliest(t) == t \in clock.timers /\ \A u \in clock.timers : t.at <= u.at

TimedPull == Pull /\ clock' = Noted

TimedJobThen == JobThen /\ clock' = Noted

TimedJobThenable == JobThenable /\ UNCHANGED clock

TimedJobAdopt == JobAdopt /\ UNCHANGED clock

\* consume: the item is received (c) and the task on it starts.
TimedJobCons ==
  /\ JobCons
  /\ clock' =
       IF Head(queue).res.t = "item"
       THEN [clock EXCEPT
               !.log = Append(@, Ev("C", Head(queue).res.v)),
               !.timers = @ \cup {[at |-> clock.now + ConsumerDelay, kind |-> "F",
                                   id |-> Head(queue).res.v]}]
       ELSE clock

\* produce: the item's delay is over; it is stamped (p) and yielded.
TimedProduce ==
  \E t \in clock.timers :
    /\ Quiet /\ Earliest(t) /\ t.kind = "P"
    /\ Becomes(Settle(World, <<0, t.id>>, Item(t.id - 1)))
    /\ clock' = [clock EXCEPT !.now = t.at, !.timers = @ \ {t},
                              !.log = Append(@, Ev("P", t.id - 1))]
    /\ UNCHANGED <<M, results, phase>>

\* produce: the generator returns once its items are out.
TimedSourceEnd ==
  \E j \in 1..Len(st[0]) :
    /\ st[0][j] = Pend /\ j > clock.n
    /\ Becomes(Settle(World, <<0, j>>, Done))
    /\ UNCHANGED <<M, results, phase, clock>>

\* consume: the task on the item is over (f).
TimedFinish ==
  \E t \in clock.timers :
    /\ Quiet /\ Earliest(t) /\ t.kind = "F"
    /\ Finish
    /\ clock' = [clock EXCEPT !.now = t.at, !.timers = @ \ {t},
                              !.log = Append(@, Ev("F", t.id))]

TimedNext ==
  \/ TimedPull
  \/ TimedJobThen
  \/ TimedJobThenable
  \/ TimedJobAdopt
  \/ TimedJobCons
  \/ TimedProduce
  \/ TimedSourceEnd
  \/ TimedFinish

SpecTimed == TimedInit /\ [][TimedNext]_vars

----------------------------------------------------------------------------
\* One microtask runs at a time: the job at the head of the queue.
Microtask == JobThen \/ JobCatch \/ JobThenable \/ JobAdopt \/ JobCons

\* The consumer's loop: finish the task on the item, pull the next one.
DrainLoop == Finish \/ Pull

\* The draining consumer (for await): it stops pulling at the end or at an
\* error.
DrainNext ==
  \/ Microtask /\ UNCHANGED clock
  \/ SourceSettle /\ UNCHANGED clock
  \/ DrainLoop /\ UNCHANGED clock

\* A consumer that calls next() again without waiting for its earlier
\* pulls to settle.
ReentrantPull == DoPull

ReentrantNext ==
  \/ ReentrantPull /\ UNCHANGED clock
  \/ Microtask /\ UNCHANGED clock
  \/ SourceSettle /\ UNCHANGED clock
  \/ Finish /\ UNCHANGED clock

SpecReentrant == Init /\ [][ReentrantNext]_vars

\* Progress: microtasks are always run, the source settles every request
\* it was given, and the consumer goes on with its loop until it has seen
\* the end or an error.  Each of these steps stays possible until it is
\* taken and only finitely many of the others can come before it, so it
\* is enough that the system never stops while a step is possible.
Fairness == WF_vars(DrainNext)

SpecLive == Init /\ [][DrainNext]_vars /\ Fairness

----------------------------------------------------------------------------
\* Properties.

Requests == Len(st[0])                      \* requests issued to the source
Outstanding(L) == {k \in 1..Len(calls[L]) : StateOf(World, calls[L][k]) = Pend}
Delivered(j) == j \in 1..Len(results) /\ results[j] # Pend

\* The source yields exactly N items and then end-of-sequence.
FiniteSource(N) ==
  \A j \in 1..Requests : st[0][j] \in {Pend, IF j <= N THEN Item(j - 1) ELSE Done}

\* The lowest failing request is request i (1-based here), the ones before
\* it having produced their items.
FirstFailure(i) ==
  /\ i \in 1..Requests /\ st[0][i] = Err(i - 1)
  /\ \A j \in 1..(i - 1) : st[0][j] = Item(j - 1)

\* C1: with one adapter, the source never has two unsettled requests.
C1_SingleFlight == M = 1 => Cardinality(Outstanding(0)) <= 1

C1_Witness ==
  M = 1 /\ Requests >= 3 /\ Cardinality(Outstanding(0)) = 1 /\ phase = "busy"

\* C2: over a source of N items and no failure, the k-th pull resolves to
\* the k-th item and the pull after the last item to end-of-sequence.
C2_Fidelity ==
  \A N \in 0..(MaxPulls + MaxLayers) :
    FiniteSource(N) =>
      \A j \in 1..Len(results) :
        results[j] \in {Pend, IF j <= N THEN Item(j - 1) ELSE Done}

C2_Witness ==
  /\ FiniteSource(2) /\ Len(results) = 3
  /\ results[1] = Item(0) /\ results[2] = Item(1) /\ results[3] = Done

\* C3: when the consumer is handed item k, the request for item k+1 has
\* already been issued to the source.
C3_Lookahead ==
  \A j \in 1..Len(results) :
    results[j].t = "item" => Requests >= results[j].v + 2

C3_Witness ==
  /\ Len(results) >= 2 /\ results[2] = Item(1) /\ Requests >= 3
  /\ st[0][3] = Pend

\* C4: with one adapter, when request i is the first to fail, the pulls
\* before it deliver their items and pull i fails with the error of i.
C4_ErrorOrder ==
  M = 1 =>
    \A i \in 1..Requests :
      FirstFailure(i) =>
        /\ \A j \in 1..Len(results) : j <= i => results[j] \in {Pend, st[0][j]}
        /\ Delivered(i) => \A j \in 1..(i - 1) : Delivered(j)

C4_Witness ==
  /\ M = 1 /\ FirstFailure(3) /\ Delivered(3) /\ results[3] = Err(2)
  /\ results[1] = Item(0) /\ results[2] = Item(1)

\* C5: once the source has answered end-of-sequence, no further request is
\* issued to it.
C5_NoRequestAfterEnd ==
  [][(\E j \in 1..Requests : st[0][j] = Done) => Requests' = Requests]_vars

\* C6: in a chain, no layer (the source included) ever has two unsettled
\* requests from the layer above it.
C6_ChainSingleFlight ==
  \A L \in 0..(M - 1) : Cardinality(Outstanding(L)) <= 1

C6_Witness ==
  /\ M >= 2 /\ Len(calls[1]) >= 3 /\ Requests >= 4
  /\ Cardinality(Outstanding(0)) = 1 /\ Cardinality(Outstanding(1)) = 1

\* C7: the source is never asked for more than M requests beyond the number
\* of pulls the consumer has made.
C7_Depth == Requests <= Len(results) + M

C7_Witness ==
  M >= 2 /\ Len(results) >= 1 /\ Requests = Len(results) + M /\ phase = "busy"

\* C8: through a chain, when request i is the first to fail, the consumer
\* receives the items before it and then the error of request i.
C8_ChainErrorOrder ==
  \A i \in 1..Requests :
    FirstFailure(i) =>
      \A j \in 1..Len(results) : j <= i => results[j] \in {Pend, st[0][j]}

C8_Witness ==
  /\ M >= 2 /\ FirstFailure(2) /\ Requests >= 3 /\ st[0][3].t = "err"
  /\ Delivered(2) /\ results[1] = Item(0) /\ results[2] = Err(1)

\* C9: after a pull has failed, the adapter issues no further request to
\* the source.
C9_NoRequestAfterFailure ==
  [][(M = 1 /\ \E j \in 1..Len(results) : results[j].t = "err")
       => Requests' = Requests]_vars

\* C10: after a pull has failed, no later pull yields an item or another
\* error.
C10_TerminatedAfterFailure ==
  M = 1 =>
    \A i \in 1..Len(results) : \A j \in 1..Len(results) :
      (i < j /\ results[i].t = "err") => results[j].t \in {"pend", "done"}

\* C11 (as stated): over an empty source no upstream request is ever issued.
C11_ZeroRequests == FiniteSource(0) => Requests = 0

\* C11 (amended): over an empty source every pull resolves to
\* end-of-sequence; the first pull issues the first request to the source
\* (none is issued before it), and with one adapter the source is asked at
\* most once more than the consumer has pulled.
C11_EmptySource ==
  FiniteSource(0) =>
    /\ \A j \in 1..Len(results) : results[j] \in {Pend, Done}
    /\ (Len(results) = 0) = (Requests = 0)
    /\ M = 1 => Requests <= Len(results) + 1

C11_Witness ==
  /\ M = 1 /\ FiniteSource(0) /\ Len(results) = 1 /\ results[1] = Done
  /\ Requests = 2

\* The event order of n items when every item is produced slower than it is
\* consumed, and when every item is produced faster.
RECURSIVE SlowBlocks(_, _)
SlowBlocks(i, n) ==
  IF i >= n THEN <<>>
  ELSE <<Ev("R", i), Ev("C", i - 1), Ev("F", i - 1), Ev("P", i)>> \o SlowBlocks(i + 1, n)

RECURSIVE FastBlocks(_, _)
FastBlocks(i, n) ==
  IF i >= n THEN <<>>
  ELSE <<Ev("R", i), Ev("C", i - 1), Ev("P", i), Ev("F", i - 1)>> \o FastBlocks(i + 1, n)

\* Block i takes the fast shape when producing item i is quicker than
\* consuming item i-1.
RECURSIVE MixedBlocks(_, _, _)
MixedBlocks(i, n, dp) ==
  IF i >= n THEN <<>>
  ELSE (IF dp[i + 1] < ConsumerDelay
        THEN <<Ev("R", i), Ev("C", i - 1), Ev("P", i), Ev("F", i - 1)>>
        ELSE <<Ev("R", i), Ev("C", i - 1), Ev("F", i - 1), Ev("P", i)>>)
       \o MixedBlocks(i + 1, n, dp)

Trace(blocks, n) ==
  <<Ev("R", 0), Ev("P", 0)>> \o blocks \o <<Ev("C", n - 1), Ev("F", n - 1)>>

IsPrefix(a, b) == Len(a) <= Len(b) /\ SubSeq(b, 1, Len(a)) = a

Drained == phase = "ended"

AllDelays(d) == \A i \in 1..clock.n : clock.dp[i] = d

\* C12: with every item slower to produce than to consume, the events come
\* in the order R0 P0, (R(i) C(i-1) F(i-1) P(i)) for i = 1..N-1, C(N-1) F(N-1).
C12_SlowTrace ==
  AllDelays(SlowDelay) =>
    /\ IsPrefix(clock.log, Trace(SlowBlocks(1, clock.n), clock.n))
    /\ Drained => clock.log = Trace(SlowBlocks(1, clock.n), clock.n)

C12_Witness ==
  /\ AllDelays(SlowDelay) /\ clock.n = 3 /\ Drained
  /\ Len(clock.log) = 12

C14_SynchronousLookahead ==
  (M = 1 /\ Len(results) >= 1) => Requests >= Len(results) + 1

\* C14 (amended): a pull issues no request for the following item; that
\* request is issued by the reaction to the current request's settlement,
\* hence only once every earlier source request has settled.
C14_LookaheadAfterSettle ==
  [][(Requests >= 1 /\ Requests' > Requests) =>
       /\ Requests' = Requests + 1
       /\ \A j \in 1..Requests : st[0][j] # Pend
       /\ queue # <<>> /\ Head(queue).kind = "then" /\ Fulfilled(Head(queue).res)]_vars

C14_Witness ==
  /\ M = 1 /\ Len(results) = 2 /\ results[1] = Item(0) /\ results[2] = Pend
  /\ Requests = 2 /\ st[0][2] = Pend

\* C15: the Pending Request stored by a pull that fails settles to
\* end-of-sequence without a call to the source, so the pull right after a
\* failed pull resolves to end-of-sequence.
C15_FailureReportedOnce ==
  \A j \in 1..Len(results) :
    results[j].t = "err" =>
      /\ st[M][j] \in {Pend, Done}
      /\ (j + 1 <= Len(results) => results[j + 1] \in {Pend, Done})
      /\ (j = Len(results) /\ \A i \in 1..(j - 1) : results[i].t = "item")
           => Requests = j

C15_Witness ==
  /\ Len(results) = 3 /\ results[1] = Item(0) /\ results[2] = Err(1)
  /\ results[3] = Done /\ st[M][2] = Done

\* C16: once a pull has returned end-of-sequence, every later pull returns
\* end-of-sequence too.
C16_ExhaustionAbsorbing ==
  M = 1 =>
    \A i \in 1..Len(results) : \A j \in 1..Len(results) :
      (i < j /\ results[i] = Done) => results[j] \in {Pend, Done}

\* C17: when every source request settles and the consumer keeps pulling,
\* every pull that was made settles, and the drain loop comes to its end
\* (or, the source still yielding, to the last pull of the model).
C17_NoStall ==
  /\ (phase = "waiting") ~> (phase # "waiting" /\ Delivered(Len(results)))
  /\ <>(phase = "ended" \/ (Len(results) = MaxPulls /\ phase = "idle"))

C17_Witness ==
  /\ M >= 2 /\ phase = "ended" /\ Len(results) = 3
  /\ results[1] = Item(0) /\ results[2] = Item(1) /\ results[3] = Err(2)

\* C18: wrapping the source and obtaining the iterator ask the source for
\* nothing and store no Pending Request; the first pull issues the first
\* request to the source.
C18_Lazy ==
  /\ Len(results) = 0 =>
       /\ Requests = 0
       /\ \A L \in Layers : pending[L] = None /\ calls[L] = <<>>
  /\ Len(results) >= 1 =>
       /\ Requests >= 1
       /\ \A L \in 0..M : Len(calls[L]) >= 1 /\ calls[L][1] = <<0, 1>>

C18_Witness ==
  /\ M >= 2 /\ Len(results) = 1 /\ Requests = 1 /\ st[0][1] = Pend
  /\ pending[M] # None

\* C19: with re-entrant pulls on one adapter the source still never has two
\* unsettled requests, and the j-th promise handed out settles with the
\* result of the j-th request to the source.
C19_ReentrantSerialized ==
  M = 1 =>
    /\ Cardinality(Outstanding(0)) <= 1
    /\ \A j \in 1..Len(results) :
         (Delivered(j) /\ j <= Requests /\ st[0][j] # Pend) => results[j] = st[0][j]

====
